---- MODULE Spec2Model ----
(***************************************************************************)
(* A model of cmd/grv/ref_view.go: the filter chain (renderedRefList), the *)
(* group generators, the regeneration of the rendered refs, the cursor     *)
(* navigation handlers, selection and filter management, and the locking   *)
(* of the entry points of RefView against the load-completion callbacks.   *)
(*                                                                         *)
(* Strings are sequences of tokens: a token is one character (" ", "[",    *)
(* "+", ...) or an indivisible name that holds no space.  fmt.Sprintf is   *)
(* the concatenation of the tokens, strings.TrimLeft drops leading " ".    *)
(***************************************************************************)
EXTENDS Integers, Sequences, FiniteSets, TLC

VARIABLES
    repo,             \* the repository behind repoData: head, branches, tags
    branchesLoading,  \* repoData.Branches() loading flag
    tagsLoading,      \* repoData.LocalTags() loading flag
    expanded,         \* refView.refLists[i].expanded
    renderedRefs,     \* refView.renderedRefs: the chain, head link first
    refListeners,     \* refView.refListeners
    active,           \* refView.active
    viewPos,          \* refView.viewPos
    viewDimension,    \* refView.viewDimension
    lock,             \* refView.lock: "free" or the thread holding it
    pc,               \* position of each thread
    renderedRefNum,   \* Render's local renderedRefNum (line 319)
    result,           \* what the running entry point has returned/reported
    panicked          \* a Go run-time panic has ended the program

vars == <<repo, branchesLoading, tagsLoading, expanded, renderedRefs,
          refListeners, active, viewPos, viewDimension, lock, pc,
          renderedRefNum, result, panicked>>

----------------------------------------------------------------------------
(* Bounds *)

MaxFilters == 1         \* filters installed on the view of a repository
MaxListeners == 2       \* listeners registered
MaxRows == 3            \* rows fed to a chain that is exercised on its own
MaxChainFilters == 2    \* filters installed on such a chain

----------------------------------------------------------------------------
(* RenderedRefType, lines 17-26 *)

RvLocalBranchGroup == "RvLocalBranchGroup"
RvRemoteBranchGroup == "RvRemoteBranchGroup"
RvLocalBranch == "RvLocalBranch"
RvRemoteBranch == "RvRemoteBranch"
RvTagGroup == "RvTagGroup"
RvTag == "RvTag"
RvSpace == "RvSpace"
RvLoading == "RvLoading"

Nil == "nil"
NoOid == <<>>
NilBranch == [name |-> Nil, oid |-> NoOid]      \* a nil *Branch
NilRefFilter == [op |-> Nil, name |-> <<>>]     \* a nil *RefFilter

\* The static part of refView.refLists (NewRefView, lines 182-199); the
\* expanded flags are the variable expanded.
RefLists ==
    << [name |-> "Branches", renderer |-> "generateBranches",
        expanded |-> TRUE, renderedRefType |-> RvLocalBranchGroup],
       [name |-> "Remote Branches", renderer |-> "generateBranches",
        expanded |-> FALSE, renderedRefType |-> RvRemoteBranchGroup],
       [name |-> "Tags", renderer |-> "generateTags",
        expanded |-> FALSE, renderedRefType |-> RvTagGroup] >>

RefListIndexes == 1..Len(RefLists)

\* A RenderedRef (lines 47-53); refList is an index into RefLists, 0 for nil.
RenderedRef(value, oid, renderedRefType, refList, refNum) ==
    [value |-> value, oid |-> oid, renderedRefType |-> renderedRefType,
     refList |-> refList, refNum |-> refNum]

----------------------------------------------------------------------------
(* Strings *)

RECURSIVE TrimLeft(_)
TrimLeft(s) ==
    IF s # <<>> /\ Head(s) = " " THEN TrimLeft(Tail(s)) ELSE s

\* oid.String()[0:7]: an Oid is <<first seven characters, the rest>>.
OidPrefix(oid) == <<oid[1]>>

getDetachedHeadDisplayValue(oid) == <<"HEAD detached at ">> \o OidPrefix(oid)

isSelectableRenderedRef(renderedRefType) ==
    renderedRefType # RvSpace /\ renderedRefType # RvLoading

----------------------------------------------------------------------------
(* RefFilter: a compiled query on the name of a ref (its value without the *)
(* leading spaces).                                                        *)

MatchesFilter(refFilter, renderedRef) ==
    LET name == TrimLeft(renderedRef.value) IN
    IF refFilter.op = "=" THEN name = refFilter.name ELSE name # refFilter.name

----------------------------------------------------------------------------
(* renderedRefList, lines 65-153.  The chain is the sequence of its links, *)
(* link i+1 being the child of link i; the head link has no filter.        *)

newFilteredRenderedRefList(refFilter) ==
    [refFilter |-> refFilter, renderedRefs |-> <<>>]

newRenderedRefList == <<newFilteredRenderedRefList(NilRefFilter)>>

\* Add on link i of the chain, the ref handed to the child whether or not
\* the filter of the link matches it.
RECURSIVE ListAddHandsOn(_, _, _)
ListAddHandsOn(chain, i, renderedRef) ==
    LET matches == chain[i].refFilter = NilRefFilter
                       \/ MatchesFilter(chain[i].refFilter, renderedRef)
        appended == IF matches
                    THEN [chain EXCEPT ![i].renderedRefs = Append(@, renderedRef)]
                    ELSE chain
    IN  IF i < Len(appended)
        THEN ListAddHandsOn(appended, i + 1, renderedRef)
        ELSE appended

\* Add on link i of the chain.
RECURSIVE ListAdd(_, _, _)
ListAdd(chain, i, renderedRef) ==
    IF chain[i].refFilter # NilRefFilter /\ ~MatchesFilter(chain[i].refFilter, renderedRef)
    THEN chain
    ELSE LET appended ==
                 [chain EXCEPT ![i].renderedRefs = Append(@, renderedRef)]
         IN  IF i < Len(appended)
             THEN ListAdd(appended, i + 1, renderedRef)
             ELSE appended

Add(chain, renderedRef) == ListAdd(chain, 1, renderedRef)

RECURSIVE AddAllFrom(_, _, _)
AddAllFrom(chain, i, refs) ==
    IF refs = <<>> THEN chain
    ELSE AddAllFrom(ListAdd(chain, i, Head(refs)), i, Tail(refs))

\* The new link is fed the refs of the head link.
ListAddChildFedFromHead(chain, i, newList) ==
    AddAllFrom(Append(chain, newList), Len(chain) + 1, chain[1].renderedRefs)

\* AddChild on link i: walk to the link without a child, attach the new
\* link there and feed it the refs of that link.
RECURSIVE ListAddChild(_, _, _)
ListAddChild(chain, i, newList) ==
    IF i < Len(chain)
    THEN ListAddChild(chain, i + 1, newList)
    ELSE AddAllFrom(Append(chain, newList), i + 1, chain[i].renderedRefs)

AddChild(chain, newList) == ListAddChild(chain, 1, newList)

\* The head link drops its child: every filter goes.
ListRemoveEveryChild(chain, i) ==
    IF Len(chain) = 1
    THEN [chain |-> chain, removed |-> FALSE]
    ELSE [chain |-> SubSeq(chain, 1, 1), removed |-> TRUE]

\* RemoveChild on link i: [chain, removed].
RECURSIVE ListRemoveChild(_, _)
ListRemoveChild(chain, i) ==
    IF i = Len(chain)
    THEN [chain |-> chain, removed |-> FALSE]
    ELSE IF i + 1 = Len(chain)
    THEN [chain |-> SubSeq(chain, 1, i), removed |-> TRUE]
    ELSE ListRemoveChild(chain, i + 1)

\* The link below the head is unlinked, what the recursion returns is lost.
RemoveChildResultLost(chain) ==
    [chain |-> ListRemoveChild(chain, 1).chain, removed |-> Len(chain) = 2]

RemoveChild(chain) == ListRemoveChild(chain, 1)

\* Clear empties the head link and lets go of its child.
ListClearDropsChild(chain, i) == <<[chain[1] EXCEPT !.renderedRefs = <<>>]>>

RECURSIVE ListClear(_, _)
ListClear(chain, i) ==
    LET cleared == [chain EXCEPT ![i].renderedRefs = <<>>] IN
    IF i < Len(chain) THEN ListClear(cleared, i + 1) ELSE cleared

Clear(chain) == ListClear(chain, 1)

RECURSIVE ListRenderedRefs(_, _)
ListRenderedRefs(chain, i) ==
    IF i < Len(chain) THEN ListRenderedRefs(chain, i + 1)
    ELSE chain[i].renderedRefs

RenderedRefs(chain) == ListRenderedRefs(chain, 1)

RECURSIVE ListChildren(_, _)
ListChildren(chain, i) ==
    IF i < Len(chain) THEN 1 + ListChildren(chain, i + 1) ELSE 0

Children(chain) == ListChildren(chain, 1)

----------------------------------------------------------------------------
(* repoData as the view reads it (lines 235, 271, 394-418, 461, 480, 508)  *)

Branches ==
    [localBranches |-> IF branchesLoading THEN <<>> ELSE repo.localBranches,
     remoteBranches |-> IF branchesLoading THEN <<>> ELSE repo.remoteBranches,
     loading |-> branchesLoading]

LocalTags ==
    [tags |-> IF tagsLoading THEN <<>> ELSE repo.tags, loading |-> tagsLoading]

RepoHead == [head |-> repo.head, headBranch |-> repo.headBranch]

----------------------------------------------------------------------------
(* Group generators, lines 460-527 *)

LoadingRef == RenderedRef(<<" ", " ", " ", "Loading...">>, NoOid, RvLoading, 0, 0)

\* The loop of lines 495-504: one ref per branch, numbered from branchNum.
RECURSIVE BranchRefs(_, _, _)
BranchRefs(branches, branchRenderedRefType, branchNum) ==
    IF branches = <<>> THEN <<>>
    ELSE <<RenderedRef(<<" ", " ", " ", Head(branches).name>>, Head(branches).oid,
                       branchRenderedRefType, 0, branchNum)>>
         \o BranchRefs(Tail(branches), branchRenderedRefType, branchNum + 1)

\* generateBranches without the look at the loading flag: while the branches
\* load there are none, and the group gets no row.
generateBranchesWithoutLoadingRow(refList) ==
    IF RefLists[refList].renderedRefType = RvLocalBranchGroup
    THEN IF RepoHead.headBranch = NilBranch
         THEN <<RenderedRef(<<" ", " ", " ">> \o getDetachedHeadDisplayValue(RepoHead.head),
                            RepoHead.head, RvLocalBranch, 0, 1)>>
              \o BranchRefs(Branches.localBranches, RvLocalBranch, 2)
         ELSE BranchRefs(Branches.localBranches, RvLocalBranch, 1)
    ELSE BranchRefs(Branches.remoteBranches, RvRemoteBranch, 1)

\* The refs generateBranches adds for the group refList, in order.
generateBranches(refList) ==
    IF Branches.loading THEN <<LoadingRef>>
    ELSE IF RefLists[refList].renderedRefType = RvLocalBranchGroup
    THEN IF RepoHead.headBranch = NilBranch
         THEN <<RenderedRef(<<" ", " ", " ">> \o getDetachedHeadDisplayValue(RepoHead.head),
                            RepoHead.head, RvLocalBranch, 0, 1)>>
              \o BranchRefs(Branches.localBranches, RvLocalBranch, 2)
         ELSE BranchRefs(Branches.localBranches, RvLocalBranch, 1)
    ELSE BranchRefs(Branches.remoteBranches, RvRemoteBranch, 1)

\* The refs generateTags adds, in order.
generateTags(refList) ==
    IF LocalTags.loading THEN <<LoadingRef>>
    ELSE [tagIndex \in 1..Len(LocalTags.tags) |->
             RenderedRef(<<" ", " ", " ", LocalTags.tags[tagIndex].name>>,
                         LocalTags.tags[tagIndex].oid, RvTag, 0, tagIndex)]

Renderer(refList) ==
    IF RefLists[refList].renderer = "generateBranches"
    THEN generateBranches(refList)
    ELSE generateTags(refList)

----------------------------------------------------------------------------
(* generateRenderedRefs, lines 430-458 *)

HeaderRef(refList, isExpanded) ==
    RenderedRef(<<" ", " ", "[", IF isExpanded THEN "-" ELSE "+", "]", " ",
                  RefLists[refList].name>>,
                NoOid, RefLists[refList].renderedRefType, refList, 0)

SpaceRef == RenderedRef(<<>>, NoOid, RvSpace, 0, 0)

\* One iteration of the loop of lines 435-457: the refs added for the
\* group refIndex, given the expanded flags exp.
GroupRefs(refIndex, exp) ==
    <<HeaderRef(refIndex, exp[refIndex])>>
    \o (IF exp[refIndex] THEN Renderer(refIndex) ELSE <<>>)
    \o (IF refIndex # Len(RefLists) THEN <<SpaceRef>> ELSE <<>>)

GenerateGroup(chain, refIndex, exp) == AddAllFrom(chain, 1, GroupRefs(refIndex, exp))

RECURSIVE GenerateGroupsFrom(_, _, _)
GenerateGroupsFrom(chain, refIndex, exp) ==
    IF refIndex > Len(RefLists) THEN chain
    ELSE GenerateGroupsFrom(GenerateGroup(chain, refIndex, exp), refIndex + 1, exp)

generateRenderedRefs(chain, exp) == GenerateGroupsFrom(Clear(chain), 1, exp)

----------------------------------------------------------------------------
(* Inputs: the repositories the view is opened on *)

OidA == <<"aaaaaaa", "a-rest">>
OidB == <<"bbbbbbb", "b-rest">>
OidR == <<"ccccccc", "r-rest">>
OidT == <<"ddddddd", "t-rest">>
OidH == <<"abc1234", "h-rest">>

BranchA == [name |-> "a", oid |-> OidA]
BranchB == [name |-> "b", oid |-> OidB]
BranchR == [name |-> "origin/a", oid |-> OidR]
BranchX == [name |-> "x", oid |-> OidH]
TagT == [name |-> "t", oid |-> OidT]

RepoChoices ==
    { \* HEAD on the second local branch
      [head |-> OidB, headBranch |-> BranchB, localBranches |-> <<BranchA, BranchB>>,
       remoteBranches |-> <<>>, tags |-> <<TagT>>],
      \* detached HEAD
      [head |-> OidH, headBranch |-> NilBranch, localBranches |-> <<BranchA>>,
       remoteBranches |-> <<BranchR>>, tags |-> <<>>],
      \* HEAD on a branch that is not among the loaded local branches
      [head |-> OidH, headBranch |-> BranchX, localBranches |-> <<BranchA>>,
       remoteBranches |-> <<>>, tags |-> <<TagT>>] }

\* The filter queries the user types; CreateRefFilter compiles them.
Queries ==
    { [valid |-> TRUE, op |-> "=", name |-> <<"no such ref">>],
      [valid |-> TRUE, op |-> "!=", name |-> <<"[", "-", "]", " ", "Branches">>],
      [valid |-> FALSE, op |-> "=", name |-> <<"(">>] }

CreateRefFilter(query) ==
    IF query.valid
    THEN [refFilter |-> [op |-> query.op, name |-> query.name], errors |-> <<>>]
    ELSE [refFilter |-> NilRefFilter, errors |-> <<"syntax error">>]

\* action.Args of an add-filter action
FilterArgs ==
    {<<>>} \cup {<<[type |-> "int", value |-> q]>> : q \in {q \in Queries : ~q.valid}}
        \cup {<<[type |-> "string", value |-> q]>> : q \in Queries}

\* The rows of the window handed to Render
WinRows == {1, 4}

----------------------------------------------------------------------------
(* uint arithmetic.  Go's uint is 64 bits wide; the model keeps as many   *)
(* bits as the integers of the model checker hold.                         *)

UintBits == 30
UintSub(a, b) == (a - b) % (2 ^ UintBits)

----------------------------------------------------------------------------
(* Threads and positions *)

Threads == {"init", "branchLoader", "tagLoader", "ui"}

At(t, at) == pc[t].at = at

\* Thread t is at position at and no panic has ended the program.
Running(t, at) == ~panicked /\ At(t, at)
Goto(t, at) == pc' = [pc EXCEPT ![t] = [at |-> at, refIndex |-> 0]]

NoResult ==
    [op |-> "none", err |-> Nil, notified |-> <<>>, redraw |-> FALSE,
     status |-> Nil, value |-> <<>>, steps |-> 0]

\* refView.lock.Lock() and the deferred refView.lock.Unlock()
Lock(t) == lock = "free" /\ lock' = t
Unlock(t) == lock' = "free"

NewViewPosition == [activeRowIndex |-> 0, viewStartRowIndex |-> 0]

Init ==
    /\ repo \in RepoChoices
    /\ branchesLoading = TRUE
    /\ tagsLoading = TRUE
    /\ expanded = [i \in RefListIndexes |-> RefLists[i].expanded]
    /\ renderedRefs = newRenderedRefList
    /\ refListeners = <<>>
    /\ active = FALSE
    /\ viewPos = NewViewPosition
    /\ viewDimension = [rows |-> 0]
    /\ lock = "free"
    /\ pc = [t \in Threads |-> [at |-> IF t = "init" THEN "start" ELSE "idle",
                                refIndex |-> 0]]
    /\ renderedRefNum = 0
    /\ result = NoResult
    /\ panicked = FALSE

----------------------------------------------------------------------------
(* Listeners, lines 293-308 *)

RegisterRefListener ==
    /\ Running("init", "start")
    /\ Len(refListeners) < MaxListeners
    /\ refListeners' = Append(refListeners, Len(refListeners) + 1)
    /\ UNCHANGED <<repo, branchesLoading, tagsLoading, expanded, renderedRefs,
                   active, viewPos, viewDimension, lock, pc, renderedRefNum,
                   result, panicked>>

\* Every listener is called, the first error is kept.
RECURSIVE NotifyEveryListenerFrom(_, _, _, _, _)
NotifyEveryListenerFrom(listeners, i, refName, oid, failing) ==
    IF i > Len(listeners) THEN [notified |-> <<>>, err |-> Nil]
    ELSE LET call == [listener |-> listeners[i], refName |-> refName, oid |-> oid]
             rest == NotifyEveryListenerFrom(listeners, i + 1, refName, oid, failing)
         IN  [notified |-> <<call>> \o rest.notified,
              err |-> IF listeners[i] \in failing THEN "OnRefSelect failed" ELSE rest.err]

\* The loop of lines 301-305 from listener i on; failing is the set of
\* listeners whose OnRefSelect returns an error when called.
RECURSIVE NotifyFrom(_, _, _, _, _)
NotifyFrom(listeners, i, refName, oid, failing) ==
    IF i > Len(listeners) THEN [notified |-> <<>>, err |-> Nil]
    ELSE LET call == [listener |-> listeners[i], refName |-> refName, oid |-> oid] IN
         IF listeners[i] \in failing
         THEN [notified |-> <<call>>, err |-> "OnRefSelect failed"]
         ELSE LET rest == NotifyFrom(listeners, i + 1, refName, oid, failing)
              IN  [notified |-> <<call>> \o rest.notified, err |-> rest.err]

notifyRefListeners(listeners, refName, oid, failing) ==
    NotifyFrom(listeners, 1, refName, oid, failing)

Range(s) == {s[i] : i \in 1..Len(s)}

----------------------------------------------------------------------------
(* generateRenderedRefs as the threads run it: Clear (line 432), then one  *)
(* step for each iteration of the loop of lines 435-457.                   *)

GenerateClear(t) ==
    /\ Running(t, "generate") /\ pc[t].refIndex = 0
    /\ renderedRefs' = Clear(renderedRefs)
    /\ pc' = [pc EXCEPT ![t].refIndex = 1]

GenerateLoop(t) ==
    /\ Running(t, "generate") /\ pc[t].refIndex \in RefListIndexes
    /\ renderedRefs' = GenerateGroup(renderedRefs, pc[t].refIndex, expanded)
    /\ pc' = [pc EXCEPT ![t] = IF pc[t].refIndex = Len(RefLists)
                                THEN [at |-> "generated", refIndex |-> 0]
                                ELSE [at |-> "generate", refIndex |-> pc[t].refIndex + 1]]

Generators == {"init", "branchLoader", "tagLoader"}

GenerateStep ==
    /\ \E t \in Generators : GenerateClear(t) \/ GenerateLoop(t)
    /\ UNCHANGED <<repo, branchesLoading, tagsLoading, expanded, refListeners,
                   active, viewPos, viewDimension, lock, renderedRefNum, result,
                   panicked>>

----------------------------------------------------------------------------
(* Initialise, lines 221-283 *)

\* The application registers its listeners, then calls Initialise.
InitialiseLoadHead ==
    /\ Running("init", "start")
    /\ Len(refListeners) = MaxListeners
    /\ \E ok \in BOOLEAN : Goto("init", IF ok THEN "loadBranches" ELSE "failed")
    /\ UNCHANGED <<repo, branchesLoading, tagsLoading, expanded, renderedRefs,
                   refListeners, active, viewPos, viewDimension, lock,
                   renderedRefNum, result, panicked>>

\* LoadBranches registers the callback of lines 228-253 and starts the load.
InitialiseLoadBranches ==
    /\ Running("init", "loadBranches")
    /\ \E ok \in BOOLEAN :
          pc' = IF ok
                THEN [pc EXCEPT !["init"].at = "loadLocalTags",
                                !["branchLoader"].at = "loading"]
                ELSE [pc EXCEPT !["init"].at = "failed"]
    /\ UNCHANGED <<repo, branchesLoading, tagsLoading, expanded, renderedRefs,
                   refListeners, active, viewPos, viewDimension, lock,
                   renderedRefNum, result, panicked>>

\* LoadLocalTags registers the callback of lines 257-266 and starts the load;
\* Initialise goes on to generateRenderedRefs (line 270), the lock not held.
InitialiseLoadLocalTags ==
    /\ Running("init", "loadLocalTags")
    /\ \E ok \in BOOLEAN :
          pc' = IF ok
                THEN [pc EXCEPT !["init"].at = "generate",
                                !["tagLoader"].at = "loading"]
                ELSE [pc EXCEPT !["init"].at = "failed"]
    /\ UNCHANGED <<repo, branchesLoading, tagsLoading, expanded, renderedRefs,
                   refListeners, active, viewPos, viewDimension, lock,
                   renderedRefNum, result, panicked>>

\* Lines 271-280: the listeners are told the branch HEAD is on.
InitialiseNotify ==
    /\ Running("init", "generated")
    /\ \E failing \in SUBSET Range(refListeners) :
          LET branchName == IF RepoHead.headBranch = NilBranch
                            THEN getDetachedHeadDisplayValue(RepoHead.head)
                            ELSE <<RepoHead.headBranch.name>>
              told == notifyRefListeners(refListeners, branchName, RepoHead.head, failing)
          IN  result' = [NoResult EXCEPT !.op = "Initialise", !.err = told.err,
                                         !.notified = told.notified]
    /\ Goto("init", "return")
    /\ UNCHANGED <<repo, branchesLoading, tagsLoading, expanded, renderedRefs,
                   refListeners, active, viewPos, viewDimension, lock,
                   renderedRefNum, panicked>>

InitialiseReturn ==
    /\ Running("init", "return")
    /\ Goto("init", IF result.err = Nil THEN "done" ELSE "failed")
    /\ result' = NoResult
    /\ UNCHANGED <<repo, branchesLoading, tagsLoading, expanded, renderedRefs,
                   refListeners, active, viewPos, viewDimension, lock,
                   renderedRefNum, panicked>>

----------------------------------------------------------------------------
(* The load-completion callbacks, lines 228-253 and 257-266 *)

\* repoData has the branches: Branches() stops reporting loading.
BranchesLoaded ==
    /\ Running("branchLoader", "loading")
    /\ branchesLoading' = FALSE
    /\ Goto("branchLoader", "callback")
    /\ UNCHANGED <<repo, tagsLoading, expanded, renderedRefs, refListeners, active,
                   viewPos, viewDimension, lock, renderedRefNum, result, panicked>>

TagsLoaded ==
    /\ Running("tagLoader", "loading")
    /\ tagsLoading' = FALSE
    /\ Goto("tagLoader", "callback")
    /\ UNCHANGED <<repo, branchesLoading, expanded, renderedRefs, refListeners,
                   active, viewPos, viewDimension, lock, renderedRefNum, result,
                   panicked>>

\* The callback goes on without the lock.
CallbackLockNotTaken(t) ==
    /\ Running(t, "callback")
    /\ lock' = lock
    /\ pc' = [pc EXCEPT ![t] = [at |-> "generate", refIndex |-> 0]]

\* Lines 230-231 and 259-260
CallbackLock(t) ==
    /\ Running(t, "callback")
    /\ Lock(t)
    /\ pc' = [pc EXCEPT ![t] = [at |-> "generate", refIndex |-> 0]]

CallbackEnter ==
    /\ \E t \in {"branchLoader", "tagLoader"} : CallbackLock(t)
    /\ UNCHANGED <<repo, branchesLoading, tagsLoading, expanded, renderedRefs,
                   refListeners, active, viewPos, viewDimension, renderedRefNum,
                   result, panicked>>

\* The loop of lines 239-246
RECURSIVE HeadBranchRowIndex(_, _, _)
HeadBranchRowIndex(localBranches, headBranch, activeRowIndex) ==
    IF localBranches = <<>> THEN activeRowIndex
    ELSE IF Head(localBranches).name = headBranch.name THEN activeRowIndex
    ELSE HeadBranchRowIndex(Tail(localBranches), headBranch, activeRowIndex + 1)

\* Lines 235-247
BranchesCallbackRowIndex(localBranches) ==
    IF RepoHead.headBranch # NilBranch
    THEN HeadBranchRowIndex(localBranches, RepoHead.headBranch, 1)
    ELSE 1

SetActiveRowIndex(pos, activeRowIndex) ==
    [pos EXCEPT !.activeRowIndex = activeRowIndex]

\* Lines 235-252, and the deferred Unlock
BranchesCallbackReturn ==
    /\ Running("branchLoader", "generated")
    /\ viewPos' = SetActiveRowIndex(viewPos, BranchesCallbackRowIndex(repo.localBranches))
    /\ Unlock("branchLoader")
    /\ Goto("branchLoader", "done")
    /\ UNCHANGED <<repo, branchesLoading, tagsLoading, expanded, renderedRefs,
                   refListeners, active, viewDimension, renderedRefNum, result,
                   panicked>>

\* Lines 263-265, and the deferred Unlock
TagsCallbackReturn ==
    /\ Running("tagLoader", "generated")
    /\ Unlock("tagLoader")
    /\ Goto("tagLoader", "done")
    /\ UNCHANGED <<repo, branchesLoading, tagsLoading, expanded, renderedRefs,
                   refListeners, active, viewPos, viewDimension, renderedRefNum,
                   result, panicked>>

----------------------------------------------------------------------------
(* ViewPos, the cursor.  The view keeps one ViewPos and the handlers work  *)
(* on it through its methods.                                              *)

MoveToFirstLine(pos) ==
    IF pos.activeRowIndex > 0
    THEN [viewPos |-> SetActiveRowIndex(pos, 0), changed |-> TRUE]
    ELSE [viewPos |-> pos, changed |-> FALSE]

MoveToLastLine(pos, rows) ==
    IF rows > 0 /\ pos.activeRowIndex + 1 # rows
    THEN [viewPos |-> SetActiveRowIndex(pos, rows - 1), changed |-> TRUE]
    ELSE [viewPos |-> pos, changed |-> FALSE]

\* Scroll the least that brings the active row into the viewRows rows shown.
DetermineViewStartRow(pos, viewRows, rows) ==
    IF pos.viewStartRowIndex > pos.activeRowIndex
    THEN [pos EXCEPT !.viewStartRowIndex = pos.activeRowIndex]
    ELSE IF pos.activeRowIndex - pos.viewStartRowIndex >= viewRows
    THEN [pos EXCEPT !.viewStartRowIndex = UintSub(pos.activeRowIndex + 1, viewRows)]
    ELSE pos

----------------------------------------------------------------------------
(* The handlers of HandleAction, lines 613-818.  Each yields the outcome   *)
(* of the handler: the state it leaves and what it returns and reports.    *)
(* Go slices are indexed from 0: refs[i] of the code is Ref(refs, i); an   *)
(* index that is not below the length is a run-time panic.                 *)

Ref(refs, i) == refs[i + 1]
InRange(refs, i) == i < Len(refs)

Outcome(pos, chain, exp) ==
    [viewPos |-> pos, renderedRefs |-> chain, expanded |-> exp, err |-> Nil,
     notified |-> <<>>, redraw |-> FALSE, status |-> Nil, value |-> <<>>,
     steps |-> 0, panic |-> FALSE]

Panic(pos, chain, exp) == [Outcome(pos, chain, exp) EXCEPT !.panic = TRUE]

\* The loop of lines 626-634; -1 when refs[activeRowIndex] is out of range.
RECURSIVE ScanUp(_, _)
ScanUp(refs, activeRowIndex) ==
    IF activeRowIndex > 0
    THEN IF ~InRange(refs, activeRowIndex) THEN -1
         ELSE IF isSelectableRenderedRef(Ref(refs, activeRowIndex).renderedRefType)
         THEN activeRowIndex
         ELSE ScanUp(refs, activeRowIndex - 1)
    ELSE activeRowIndex

moveUpRef(pos, chain, exp) ==
    IF pos.activeRowIndex = 0 THEN Outcome(pos, chain, exp)
    ELSE LET refs == RenderedRefs(chain)
             activeRowIndex == ScanUp(refs, pos.activeRowIndex - 1)
         IN  IF activeRowIndex = -1 \/ ~InRange(refs, activeRowIndex)
             THEN Panic(pos, chain, exp)
             ELSE IF isSelectableRenderedRef(Ref(refs, activeRowIndex).renderedRefType)
             THEN [Outcome(SetActiveRowIndex(pos, activeRowIndex), chain, exp)
                      EXCEPT !.redraw = TRUE]
             ELSE Outcome(pos, chain, exp)

\* The loop of lines 661-669
RECURSIVE ScanDown(_, _)
ScanDown(refs, activeRowIndex) ==
    IF activeRowIndex < Len(refs) - 1
    THEN IF isSelectableRenderedRef(Ref(refs, activeRowIndex).renderedRefType)
         THEN activeRowIndex
         ELSE ScanDown(refs, activeRowIndex + 1)
    ELSE activeRowIndex

\* The cursor goes where the scan ended, whatever row is there.
moveDownRefToScanEnd(pos, chain, exp) ==
    LET refs == RenderedRefs(chain)
        renderedRefNum_ == Len(refs)
    IN  IF renderedRefNum_ = 0 \/ ~(pos.activeRowIndex < renderedRefNum_ - 1)
        THEN Outcome(pos, chain, exp)
        ELSE [Outcome(SetActiveRowIndex(pos, ScanDown(refs, pos.activeRowIndex + 1)),
                      chain, exp)
                 EXCEPT !.redraw = TRUE]

moveDownRef(pos, chain, exp) ==
    LET refs == RenderedRefs(chain)
        renderedRefNum_ == Len(refs)
    IN  IF renderedRefNum_ = 0 \/ ~(pos.activeRowIndex < renderedRefNum_ - 1)
        THEN Outcome(pos, chain, exp)
        ELSE LET activeRowIndex == ScanDown(refs, pos.activeRowIndex + 1)
             IN  IF isSelectableRenderedRef(Ref(refs, activeRowIndex).renderedRefType)
                 THEN [Outcome(SetActiveRowIndex(pos, activeRowIndex), chain, exp)
                          EXCEPT !.redraw = TRUE]
                 ELSE Outcome(pos, chain, exp)

\* The loop of lines 686-692.  moveUpRef returns no error, so the loop ends
\* only on its condition; once a step leaves the cursor where it is, the
\* pageSize steps that remain do the same.
RECURSIVE UpPageLoop(_, _, _, _, _)
UpPageLoop(pos, chain, exp, pageSize, steps) ==
    IF pos.activeRowIndex > 0 /\ pageSize > 0
    THEN LET step == moveUpRef(pos, chain, exp) IN
         IF step.panic THEN [step EXCEPT !.steps = steps + 1]
         ELSE IF step.viewPos = pos
         THEN [step EXCEPT !.steps = steps + pageSize]
         ELSE LET rest == UpPageLoop(step.viewPos, chain, exp, pageSize - 1, steps + 1)
              IN  [rest EXCEPT !.redraw = TRUE]
    ELSE [Outcome(pos, chain, exp) EXCEPT !.steps = steps]

moveUpRefPage(pos, chain, exp, dimension) ==
    UpPageLoop(pos, chain, exp, UintSub(dimension.rows, 2), 0)

\* The loop of lines 703-709
RECURSIVE DownPageLoop(_, _, _, _, _)
DownPageLoop(pos, chain, exp, pageSize, steps) ==
    IF pos.activeRowIndex + 1 < Len(RenderedRefs(chain)) /\ pageSize > 0
    THEN LET step == moveDownRef(pos, chain, exp) IN
         IF step.viewPos = pos
         THEN [step EXCEPT !.steps = steps + pageSize]
         ELSE LET rest == DownPageLoop(step.viewPos, chain, exp, pageSize - 1, steps + 1)
              IN  [rest EXCEPT !.redraw = TRUE]
    ELSE [Outcome(pos, chain, exp) EXCEPT !.steps = steps]

moveDownRefPage(pos, chain, exp, dimension) ==
    DownPageLoop(pos, chain, exp, UintSub(dimension.rows, 2), 0)

moveToFirstRef(pos, chain, exp) ==
    LET moved == MoveToFirstLine(pos) IN
    [Outcome(moved.viewPos, chain, exp) EXCEPT !.redraw = moved.changed]

\* The cursor goes to the last row that can be selected.
moveToLastRefSkippingRows(pos, chain, exp) ==
    LET refs == RenderedRefs(chain)
        selectable == {i \in 0..(Len(refs) - 1) :
                          isSelectableRenderedRef(Ref(refs, i).renderedRefType)}
    IN  IF selectable = {} THEN Outcome(pos, chain, exp)
        ELSE LET last == CHOOSE i \in selectable : \A j \in selectable : j <= i
             IN  [Outcome(SetActiveRowIndex(pos, last), chain, exp)
                     EXCEPT !.redraw = (last # pos.activeRowIndex)]

moveToLastRef(pos, chain, exp) ==
    LET moved == MoveToLastLine(pos, Len(RenderedRefs(chain))) IN
    [Outcome(moved.viewPos, chain, exp) EXCEPT !.redraw = moved.changed]

IsGroupType(renderedRefType) ==
    renderedRefType \in {RvLocalBranchGroup, RvRemoteBranchGroup, RvTagGroup}

IsRefType(renderedRefType) ==
    renderedRefType \in {RvLocalBranch, RvRemoteBranch, RvTag}

\* A group header flips its flag and the rows stay as they are.
selectRefNotRegenerated(pos, chain, exp, listeners, failing) ==
    LET refs == RenderedRefs(chain) IN
    IF ~InRange(refs, pos.activeRowIndex) THEN Panic(pos, chain, exp)
    ELSE LET renderedRef == Ref(refs, pos.activeRowIndex) IN
         IF IsGroupType(renderedRef.renderedRefType)
         THEN [Outcome(pos, chain, [exp EXCEPT ![renderedRef.refList] = ~@])
                  EXCEPT !.redraw = TRUE]
         ELSE Outcome(pos, chain, exp)

\* failing: the listeners whose OnRefSelect fails when called.
selectRef(pos, chain, exp, listeners, failing) ==
    LET refs == RenderedRefs(chain) IN
    IF ~InRange(refs, pos.activeRowIndex) THEN Panic(pos, chain, exp)
    ELSE LET renderedRef == Ref(refs, pos.activeRowIndex) IN
         IF IsGroupType(renderedRef.renderedRefType)
         THEN LET toggled == [exp EXCEPT ![renderedRef.refList] = ~@]
              IN  [Outcome(pos, generateRenderedRefs(chain, toggled), toggled)
                      EXCEPT !.redraw = TRUE]
         ELSE IF IsRefType(renderedRef.renderedRefType)
         THEN LET told == notifyRefListeners(listeners, TrimLeft(renderedRef.value),
                                             renderedRef.oid, failing)
              IN  [Outcome(pos, chain, exp)
                      EXCEPT !.notified = told.notified, !.err = told.err,
                             !.redraw = (told.err = Nil), !.value = <<failing>>]
         ELSE Outcome(pos, chain, exp)

\* The errors of CreateRefFilter are reported and the filter goes in all
\* the same.
addRefFilterDespiteErrors(pos, chain, exp, args) ==
    IF ~(Len(args) > 0)
    THEN [Outcome(pos, chain, exp) EXCEPT !.err = "Expected filter query argument"]
    ELSE IF args[1].type # "string"
    THEN [Outcome(pos, chain, exp)
             EXCEPT !.err = "Expected filter query argument to have type string"]
    ELSE LET created == CreateRefFilter(args[1].value)
             added == AddChild(chain, newFilteredRenderedRefList(created.refFilter))
         IN  [Outcome(pos, added, exp)
                 EXCEPT !.status = IF Len(created.errors) > 0 THEN "ReportErrors"
                                   ELSE "Filter applied"]

addRefFilter(pos, chain, exp, args) ==
    IF ~(Len(args) > 0)
    THEN [Outcome(pos, chain, exp) EXCEPT !.err = "Expected filter query argument"]
    ELSE IF args[1].type # "string"
    THEN [Outcome(pos, chain, exp)
             EXCEPT !.err = "Expected filter query argument to have type string"]
    ELSE LET created == CreateRefFilter(args[1].value) IN
         IF Len(created.errors) > 0
         THEN [Outcome(pos, chain, exp) EXCEPT !.status = "ReportErrors"]
         ELSE LET beforeRenderedRefNum == Len(RenderedRefs(chain))
                  added == AddChild(chain, newFilteredRenderedRefList(created.refFilter))
                  afterRenderedRefNum == Len(RenderedRefs(added))
              IN  [Outcome(pos, added, exp)
                      EXCEPT !.status = IF afterRenderedRefNum < beforeRenderedRefNum
                                        THEN "Filter applied"
                                        ELSE "Filter had no effect"]

removeRefFilter(pos, chain, exp) ==
    LET removal == RemoveChild(chain) IN
    [Outcome(pos, removal.chain, exp)
        EXCEPT !.status = IF removal.removed THEN "Removed ref filter"
                          ELSE "No ref filter applied to remove"]

----------------------------------------------------------------------------
(* renderFooter, lines 381-428 *)

Footer(text, num, total) == [text |-> text, num |-> num, total |-> total]

renderFooter(chain, selectedRenderedRef) ==
    LET filters == Children(chain)
        type == selectedRenderedRef.renderedRefType
    IN  IF filters > 0
        THEN Footer(IF filters > 1 THEN "filters applied" ELSE "filter applied", filters, 0)
        ELSE IF type = RvLocalBranchGroup
        THEN IF Branches.loading THEN Footer("Branches: Loading...", 0, 0)
             ELSE Footer("Branches:", Len(Branches.localBranches), 0)
        ELSE IF type = RvRemoteBranchGroup
        THEN IF Branches.loading THEN Footer("Remote Branches: Loading...", 0, 0)
             ELSE Footer("Remote Branches:", Len(Branches.remoteBranches), 0)
        ELSE IF type = RvLocalBranch
        THEN Footer("Branch of", selectedRenderedRef.refNum, Len(Branches.localBranches))
        ELSE IF type = RvRemoteBranch
        THEN Footer("Remote Branch of", selectedRenderedRef.refNum,
                    Len(Branches.remoteBranches))
        ELSE IF type = RvTagGroup
        THEN IF LocalTags.loading THEN Footer("Tags: Loading", 0, 0)
             ELSE Footer("Tags:", Len(LocalTags.tags), 0)
        ELSE IF type = RvTag
        THEN Footer("Tag of", selectedRenderedRef.refNum, Len(LocalTags.tags))
        ELSE Footer("", 0, 0)

----------------------------------------------------------------------------
(* The entry points the user interface calls once Initialise has returned. *)
(* An entry point that holds the lock takes it in its first step and       *)
(* releases it, by the deferred Unlock, in EntryReturn.                    *)

UiIdle == Running("ui", "idle") /\ Running("init", "done")

Report(op, out) ==
    [op |-> op, err |-> out.err, notified |-> out.notified, redraw |-> out.redraw,
     status |-> out.status, value |-> out.value, steps |-> out.steps]

\* HandleAction, lines 599-611, for an action that has a handler.  A panic
\* of the handler ends the program, the deferred Unlock having run.
Handle(op, out) ==
    /\ UiIdle
    /\ lock = "free"
    /\ lock' = IF out.panic THEN "free" ELSE "ui"
    /\ viewPos' = out.viewPos
    /\ renderedRefs' = out.renderedRefs
    /\ expanded' = out.expanded
    /\ result' = Report(op, out)
    /\ panicked' = out.panic
    /\ Goto("ui", "return")
    /\ UNCHANGED <<repo, branchesLoading, tagsLoading, refListeners, active,
                   viewDimension, renderedRefNum>>

HandlePrevLine == Handle("ActionPrevLine", moveUpRef(viewPos, renderedRefs, expanded))

HandleNextLine == Handle("ActionNextLine", moveDownRef(viewPos, renderedRefs, expanded))

HandlePrevPage ==
    Handle("ActionPrevPage", moveUpRefPage(viewPos, renderedRefs, expanded, viewDimension))

HandleNextPage ==
    Handle("ActionNextPage", moveDownRefPage(viewPos, renderedRefs, expanded, viewDimension))

HandleFirstLine == Handle("ActionFirstLine", moveToFirstRef(viewPos, renderedRefs, expanded))

HandleLastLine == Handle("ActionLastLine", moveToLastRef(viewPos, renderedRefs, expanded))

HandleSelect ==
    \E failing \in SUBSET Range(refListeners) :
        Handle("ActionSelect",
               selectRef(viewPos, renderedRefs, expanded, refListeners, failing))

\* At most maxFilters filters are installed.
HandleAddFilter(argChoices, maxFilters) ==
    \E args \in argChoices :
        LET out == addRefFilter(viewPos, renderedRefs, expanded, args) IN
        /\ Children(out.renderedRefs) <= maxFilters
        /\ Handle("ActionAddFilter", [out EXCEPT !.value = <<args>>])

HandleRemoveFilter ==
    Handle("ActionRemoveFilter", removeRefFilter(viewPos, renderedRefs, expanded))

\* HandleAction for an action without a handler: viewSearch.HandleAction is
\* called, the lock held.  A search queries the view through LineNumber,
\* Line and OnSearchMatch, which wait for the lock the caller holds.
HandleOther ==
    /\ UiIdle
    /\ Lock("ui")
    /\ \E search \in BOOLEAN :
          /\ Goto("ui", IF search THEN "blocked" ELSE "return")
          /\ result' = [NoResult EXCEPT !.op = IF search THEN "ActionSearch" ELSE "other"]
    /\ UNCHANGED <<repo, branchesLoading, tagsLoading, expanded, renderedRefs,
                   refListeners, active, viewPos, viewDimension, renderedRefNum,
                   panicked>>

\* Render, lines 313-324
RenderBegin(winRowChoices) ==
    /\ UiIdle
    /\ Lock("ui")
    /\ \E winRows \in winRowChoices :
          /\ viewDimension' = [rows |-> winRows]
          /\ viewPos' = DetermineViewStartRow(viewPos, UintSub(winRows, 2),
                                              Len(RenderedRefs(renderedRefs)))
    /\ renderedRefNum' = Len(RenderedRefs(renderedRefs))
    /\ result' = [NoResult EXCEPT !.op = "Render"]
    /\ Goto("ui", "render")
    /\ UNCHANGED <<repo, branchesLoading, tagsLoading, expanded, renderedRefs,
                   refListeners, active, panicked>>

\* The number of rows the loop of lines 326-339 draws.
RenderRowCount(rows, refIndex, refNum) ==
    IF refIndex < refNum
    THEN IF rows < refNum - refIndex THEN rows ELSE refNum - refIndex
    ELSE 0

\* Render, lines 326-354: the rows, the selected row and the footer.  The
\* window may fail a call, which ends Render before the footer.
RenderRows ==
    /\ Running("ui", "render")
    /\ \E winFails \in BOOLEAN :
          LET refs == RenderedRefs(renderedRefs)
              drawn == RenderRowCount(UintSub(viewDimension.rows, 2),
                                      viewPos.viewStartRowIndex, renderedRefNum)
          IN  IF winFails
              THEN /\ result' = [result EXCEPT !.err = "window error"]
                   /\ UNCHANGED <<panicked, lock>>
              ELSE IF ~(viewPos.activeRowIndex < renderedRefNum
                        /\ InRange(refs, viewPos.activeRowIndex))
              THEN /\ panicked' = TRUE
                   /\ lock' = "free"
                   /\ UNCHANGED result
              ELSE /\ result' = [result EXCEPT
                                   !.steps = drawn,
                                   !.value = <<renderFooter(renderedRefs,
                                                  Ref(refs, viewPos.activeRowIndex))>>]
                   /\ UNCHANGED <<panicked, lock>>
    /\ Goto("ui", "return")
    /\ UNCHANGED <<repo, branchesLoading, tagsLoading, expanded, renderedRefs,
                   refListeners, active, viewPos, viewDimension, renderedRefNum>>

OnActiveChange ==
    /\ UiIdle
    /\ Lock("ui")
    /\ \E isActive \in BOOLEAN : active' = isActive
    /\ result' = [NoResult EXCEPT !.op = "OnActiveChange"]
    /\ Goto("ui", "return")
    /\ UNCHANGED <<repo, branchesLoading, tagsLoading, expanded, renderedRefs,
                   refListeners, viewPos, viewDimension, renderedRefNum, panicked>>

\* OnSearchMatch, lines 549-561, for a match on one of the lines shown.
OnSearchMatch ==
    /\ UiIdle
    /\ Lock("ui")
    /\ \E matchLineIndex \in 0..(Len(RenderedRefs(renderedRefs)) - 1) :
          viewPos' =
              IF isSelectableRenderedRef(
                     Ref(RenderedRefs(renderedRefs), matchLineIndex).renderedRefType)
              THEN SetActiveRowIndex(viewPos, matchLineIndex)
              ELSE viewPos
    /\ result' = [NoResult EXCEPT !.op = "OnSearchMatch"]
    /\ Goto("ui", "return")
    /\ UNCHANGED <<repo, branchesLoading, tagsLoading, expanded, renderedRefs,
                   refListeners, active, viewDimension, renderedRefNum, panicked>>

\* Line, lines 564-580, for the first line and for the index after the last.
Line ==
    /\ UiIdle
    /\ Lock("ui")
    /\ \E lineIndex \in {0, Len(RenderedRefs(renderedRefs))} :
          result' = [NoResult EXCEPT
                        !.op = "Line",
                        !.value = IF lineIndex >= Len(RenderedRefs(renderedRefs))
                                  THEN <<>>
                                  ELSE Ref(RenderedRefs(renderedRefs), lineIndex).value]
    /\ Goto("ui", "return")
    /\ UNCHANGED <<repo, branchesLoading, tagsLoading, expanded, renderedRefs,
                   refListeners, active, viewPos, viewDimension, renderedRefNum,
                   panicked>>

LineNumber ==
    /\ UiIdle
    /\ Lock("ui")
    /\ result' = [NoResult EXCEPT !.op = "LineNumber",
                                  !.steps = Len(RenderedRefs(renderedRefs))]
    /\ Goto("ui", "return")
    /\ UNCHANGED <<repo, branchesLoading, tagsLoading, expanded, renderedRefs,
                   refListeners, active, viewPos, viewDimension, renderedRefNum,
                   panicked>>

\* ViewPos, lines 544-546: the cursor is handed out, the lock not taken.
ViewPosAccessor ==
    /\ UiIdle
    /\ result' = [NoResult EXCEPT !.op = "ViewPos",
                                  !.steps = viewPos.activeRowIndex]
    /\ Goto("ui", "returnUnlocked")
    /\ UNCHANGED <<repo, branchesLoading, tagsLoading, expanded, renderedRefs,
                   refListeners, active, viewPos, viewDimension, lock,
                   renderedRefNum, panicked>>

ViewPosReturn ==
    /\ Running("ui", "returnUnlocked")
    /\ result' = NoResult
    /\ Goto("ui", "idle")
    /\ UNCHANGED <<repo, branchesLoading, tagsLoading, expanded, renderedRefs,
                   refListeners, active, viewPos, viewDimension, lock,
                   renderedRefNum, panicked>>

\* The deferred refView.lock.Unlock() and the return of the entry point.
EntryReturn ==
    /\ Running("ui", "return")
    /\ Unlock("ui")
    /\ result' = NoResult
    /\ renderedRefNum' = 0
    /\ Goto("ui", "idle")
    /\ UNCHANGED <<repo, branchesLoading, tagsLoading, expanded, renderedRefs,
                   refListeners, active, viewPos, viewDimension, panicked>>

----------------------------------------------------------------------------

Load ==
    \/ RegisterRefListener
    \/ InitialiseLoadHead
    \/ InitialiseLoadBranches
    \/ InitialiseLoadLocalTags
    \/ GenerateStep
    \/ InitialiseNotify
    \/ InitialiseReturn
    \/ BranchesLoaded
    \/ TagsLoaded
    \/ CallbackEnter
    \/ BranchesCallbackReturn
    \/ TagsCallbackReturn

\* The view under the user's commands: moving the cursor by a line or to an
\* end, selecting, adding and removing filters, while the loads complete.
Next ==
    \/ Load
    \/ HandlePrevLine
    \/ HandleNextLine
    \/ HandleFirstLine
    \/ HandleLastLine
    \/ HandleSelect
    \/ HandleAddFilter(FilterArgs, MaxFilters)
    \/ HandleRemoveFilter
    \/ EntryReturn

Spec == Init /\ [][Next]_vars

\* The view as it is drawn: Render on windows of WinRows rows, the moves by
\* a page, which read the dimension Render records, the moves by a line and
\* selection, while the loads complete.
NextRender ==
    \/ Load
    \/ RenderBegin(WinRows)
    \/ RenderRows
    \/ HandlePrevLine
    \/ HandleNextLine
    \/ HandlePrevPage
    \/ HandleNextPage
    \/ HandleSelect
    \/ EntryReturn

SpecRender == Init /\ [][NextRender]_vars

\* The view as the other views and the search query it.
NextEntry ==
    \/ Load
    \/ HandleOther
    \/ OnActiveChange
    \/ OnSearchMatch
    \/ Line
    \/ LineNumber
    \/ ViewPosAccessor
    \/ ViewPosReturn
    \/ EntryReturn

SpecEntry == Init /\ [][NextEntry]_vars

----------------------------------------------------------------------------
(* The chain and the handlers under any feed of rows.  generateRenderedRefs *)
(* clears the chain and adds the rows its generators yield; here the rows  *)
(* added are left open, so that the chain and the cursor meet every row    *)
(* sequence: leading and trailing Spacer and Loading rows, no rows at all. *)

ChainRows ==
    { RenderedRef(<<" ", " ", " ", "a">>, OidA, RvLocalBranch, 0, 1),
      RenderedRef(<<" ", " ", " ", "b">>, OidB, RvLocalBranch, 0, 2),
      SpaceRef,
      LoadingRef }

ChainQueries ==
    { [valid |-> TRUE, op |-> "=", name |-> <<"a">>],
      [valid |-> TRUE, op |-> "!=", name |-> <<"a">>],
      [valid |-> TRUE, op |-> "!=", name |-> <<"b">>],
      [valid |-> FALSE, op |-> "=", name |-> <<"(">>] }

ChainFilterArgs ==
    {<<>>} \cup {<<[type |-> "string", value |-> q]>> : q \in ChainQueries}

\* The view once Initialise has returned and both loads are complete, its
\* chain as newRenderedRefList leaves it.
InitChain ==
    /\ repo = CHOOSE r \in RepoChoices : r.headBranch = BranchB
    /\ branchesLoading = FALSE
    /\ tagsLoading = FALSE
    /\ expanded = [i \in RefListIndexes |-> RefLists[i].expanded]
    /\ renderedRefs = newRenderedRefList
    /\ refListeners = <<>>
    /\ active = FALSE
    /\ viewPos = NewViewPosition
    /\ viewDimension = [rows |-> 0]
    /\ lock = "free"
    /\ pc = [t \in Threads |-> [at |-> IF t = "ui" THEN "idle" ELSE "done",
                                refIndex |-> 0]]
    /\ renderedRefNum = 0
    /\ result = NoResult
    /\ panicked = FALSE

\* renderedRefs.Add(renderedRef), as at lines 437, 452 and in the generators
ChainAdd ==
    /\ UiIdle
    /\ lock = "free"
    /\ Len(renderedRefs[1].renderedRefs) < MaxRows
    /\ \E renderedRef \in ChainRows : renderedRefs' = Add(renderedRefs, renderedRef)
    /\ UNCHANGED <<repo, branchesLoading, tagsLoading, expanded, refListeners, active,
                   viewPos, viewDimension, lock, pc, renderedRefNum, result, panicked>>

\* renderedRefs.Clear(), line 432
ChainClear ==
    /\ UiIdle
    /\ lock = "free"
    /\ renderedRefs' = Clear(renderedRefs)
    /\ UNCHANGED <<repo, branchesLoading, tagsLoading, expanded, refListeners, active,
                   viewPos, viewDimension, lock, pc, renderedRefNum, result, panicked>>

NextChain ==
    \/ ChainAdd
    \/ ChainClear
    \/ HandleAddFilter(ChainFilterArgs, MaxChainFilters)
    \/ HandleRemoveFilter
    \/ HandlePrevLine
    \/ HandleNextLine
    \/ EntryReturn

SpecChain == InitChain /\ [][NextChain]_vars

----------------------------------------------------------------------------
(* Claims *)

Loaders == {"branchLoader", "tagLoader"}

VisibleRefs == RenderedRefs(renderedRefs)

\* The indexes the loop of Render reads: from the start row, as many as
\* RenderRowCount allows.
RenderLoopIndexes ==
    LET drawn == RenderRowCount(UintSub(viewDimension.rows, 2),
                                viewPos.viewStartRowIndex, renderedRefNum)
    IN  {viewPos.viewStartRowIndex + k : k \in 0..(drawn - 1)}

Regenerating(t) == At(t, "generate") /\ pc[t].refIndex > 0

\* C2: a thread that reads or writes the expanded flags, the chain or the
\* cursor holds the lock while it does (this covers the regeneration of
\* Initialise, the callbacks, Render, the handlers, the queries and the
\* accessor ViewPos), and the lock is free once the entry point has
\* returned.
C2_LockHeldOnEveryAccess ==
    /\ \A t \in Generators : Regenerating(t) => lock = t
    /\ At("branchLoader", "generated") => lock = "branchLoader"
    /\ (~panicked /\ (At("ui", "render") \/ At("ui", "return"))) => lock = "ui"
    /\ At("ui", "returnUnlocked") => lock = "ui"
    /\ At("ui", "idle") => lock # "ui"
    /\ \A t \in Loaders : At(t, "done") => lock # t

HasSelectable(refs) ==
    \E i \in 1..Len(refs) : isSelectableRenderedRef(refs[i].renderedRefType)

CursorOnSelectable ==
    /\ InRange(VisibleRefs, viewPos.activeRowIndex)
    /\ isSelectableRenderedRef(Ref(VisibleRefs, viewPos.activeRowIndex).renderedRefType)

\* A navigation command returns, or a regeneration (that of Initialise, of a
\* callback, of a group toggle) is complete.
NavigationOrRegenerationCompletes ==
    \/ HandlePrevLine
    \/ HandleNextLine
    \/ HandleFirstLine
    \/ HandleLastLine
    \/ (HandleSelect /\ expanded' # expanded)
    \/ BranchesCallbackReturn
    \/ TagsCallbackReturn
    \/ (GenerateStep /\ At("init", "generate") /\ pc'["init"].at = "generated")

\* C3: after a navigation operation or a regeneration completes, the row at
\* the selected index is not a Spacer or Loading row, provided the visible
\* rows hold a selectable row.
C3_CursorSelectableAfterOperation ==
    [][(NavigationOrRegenerationCompletes /\ ~panicked' /\ HasSelectable(VisibleRefs'))
          => CursorOnSelectable']_vars

\* The entry point for the action op runs its handler in this step.
Handled(op) ==
    /\ At("ui", "idle")
    /\ pc'["ui"].at = "return"
    /\ result'.op = op

Selectable(refs, i) == isSelectableRenderedRef(Ref(refs, i).renderedRefType)

\* The cursor is on a selectable row and no row after it is selectable.
OnLastSelectable(refs, activeRowIndex) ==
    /\ InRange(refs, activeRowIndex)
    /\ Selectable(refs, activeRowIndex)
    /\ \A i \in (activeRowIndex + 1)..(Len(refs) - 1) : ~Selectable(refs, i)

\* The cursor is on a selectable row and no row before it is selectable.
OnFirstSelectable(refs, activeRowIndex) ==
    /\ InRange(refs, activeRowIndex)
    /\ Selectable(refs, activeRowIndex)
    /\ \A i \in 0..(activeRowIndex - 1) : ~Selectable(refs, i)

CursorStays ==
    /\ ~panicked'
    /\ viewPos'.activeRowIndex = viewPos.activeRowIndex

\* C4: a move down with the cursor on the last selectable row of the
\* visible rows, and a move up with the cursor on the first selectable row,
\* leave the selected index as it was, whatever rows (Spacer, Loading)
\* come after or before the cursor.
C4_MoveAtEndIsNoOp ==
    [][/\ (Handled("ActionNextLine") /\ OnLastSelectable(VisibleRefs, viewPos.activeRowIndex))
            => CursorStays
       /\ (Handled("ActionPrevLine") /\ OnFirstSelectable(VisibleRefs, viewPos.activeRowIndex))
            => CursorStays]_vars

\* A move down has returned without a redraw with the cursor on the last
\* selectable row, rows that are not selectable after it and before it.
C4_Witness ==
    /\ At("ui", "return")
    /\ result.op = "ActionNextLine"
    /\ ~result.redraw
    /\ OnLastSelectable(VisibleRefs, viewPos.activeRowIndex)
    /\ viewPos.activeRowIndex + 1 < Len(VisibleRefs)
    /\ viewPos.activeRowIndex > 0
    /\ ~Selectable(VisibleRefs, 0)

\* s is t with some of its elements left out, the order kept.
RECURSIVE IsSubsequence(_, _)
IsSubsequence(s, t) ==
    IF s = <<>> THEN TRUE
    ELSE IF t = <<>> THEN FALSE
    ELSE IF Head(s) = Head(t) THEN IsSubsequence(Tail(s), Tail(t))
    ELSE IsSubsequence(s, Tail(t))

\* C5: the visible rows after an add-filter command are an order-preserving
\* subsequence of the visible rows before it, whatever the predicate and
\* however many filters are installed already.
C5_AddFilterYieldsSubsequence ==
    [][Handled("ActionAddFilter") => IsSubsequence(VisibleRefs', VisibleRefs)]_vars

\* An add-filter command has returned having put a second filter on the
\* chain, one that let some rows through and kept others out.
C5_Witness ==
    /\ At("ui", "return")
    /\ result.op = "ActionAddFilter"
    /\ result.status = "Filter applied"
    /\ Children(renderedRefs) = 2
    /\ VisibleRefs # <<>>

FilterAdded == Handled("ActionAddFilter") /\ Children(renderedRefs') # Children(renderedRefs)

\* C6: a remove-filter command run right after an add-filter command that
\* installed a filter yields the visible rows and the filter depth there
\* were before the add.
C6_AddThenRemoveRestores ==
    [][FilterAdded =>
          LET back == removeRefFilter(viewPos', renderedRefs', expanded').renderedRefs
          IN  /\ RenderedRefs(back) = VisibleRefs
              /\ Children(back) = Children(renderedRefs)]_vars

\* An add-filter command has put a filter on a chain that had one, and the
\* rows the new filter shows are not those shown before it.
C6_Witness ==
    /\ At("ui", "return")
    /\ result.op = "ActionAddFilter"
    /\ Children(renderedRefs) = 2
    /\ VisibleRefs # renderedRefs[2].renderedRefs

\* The rows of refs that pass the predicate of every filter link of chain.
PassesEveryFilter(chain, renderedRef) ==
    \A k \in 2..Len(chain) : MatchesFilter(chain[k].refFilter, renderedRef)

PassingRows(chain, refs) ==
    SelectSeq(refs, LAMBDA renderedRef : PassesEveryFilter(chain, renderedRef))

LinkFilters(chain) == [k \in 1..Len(chain) |-> chain[k].refFilter]

\* The rows a regeneration generates, given what the loads have delivered.
GeneratedRows(exp) == GroupRefs(1, exp) \o GroupRefs(2, exp) \o GroupRefs(3, exp)

\* C7: with filters installed, a regeneration keeps the filter links: the
\* Clear of a load callback empties every link and keeps its filter, each
\* group the callback generates is appended to the head link and those of
\* its rows that pass every installed predicate to the visible rows, and a
\* group toggle leaves as visible rows the generated rows that pass every
\* installed predicate.
C7_FiltersPersistAcrossRegeneration ==
    [][Children(renderedRefs) >= 1 =>
          /\ \A t \in Loaders :
                /\ GenerateClear(t) =>
                      /\ LinkFilters(renderedRefs') = LinkFilters(renderedRefs)
                      /\ \A k \in 1..Len(renderedRefs') : renderedRefs'[k].renderedRefs = <<>>
                /\ GenerateLoop(t) =>
                      /\ LinkFilters(renderedRefs') = LinkFilters(renderedRefs)
                      /\ renderedRefs'[1].renderedRefs =
                            renderedRefs[1].renderedRefs \o GroupRefs(pc[t].refIndex, expanded)
                      /\ VisibleRefs' =
                            VisibleRefs \o PassingRows(renderedRefs,
                                                       GroupRefs(pc[t].refIndex, expanded))
          /\ (Handled("ActionSelect") /\ expanded' # expanded) =>
                /\ LinkFilters(renderedRefs') = LinkFilters(renderedRefs)
                /\ VisibleRefs' = PassingRows(renderedRefs, GeneratedRows(expanded'))]_vars

\* The branches callback has regenerated the rows with a filter installed:
\* the filter is still there, it keeps a generated row out, and the rows
\* shown are the generated rows that pass it, a loaded branch among them.
C7_Witness ==
    /\ At("branchLoader", "generated")
    /\ Children(renderedRefs) >= 1
    /\ VisibleRefs # renderedRefs[1].renderedRefs
    /\ VisibleRefs = PassingRows(renderedRefs, renderedRefs[1].renderedRefs)
    /\ \E i \in 1..Len(VisibleRefs) : VisibleRefs[i].renderedRefType = RvLocalBranch

\* C8: a remove-filter command on a chain with a filter takes off the last
\* link and no other, every link before it keeping its filter and rows, and
\* reports the removal; on a chain without a filter it changes nothing and
\* reports that there was none.  RemoveChild returns true in the first case
\* only.
C8_RemoveFilterRemovesLastLink ==
    [][Handled("ActionRemoveFilter") =>
          /\ RemoveChild(renderedRefs).removed = (Children(renderedRefs) >= 1)
          /\ (result'.status = "Removed ref filter") = RemoveChild(renderedRefs).removed
          /\ result'.status \in {"Removed ref filter", "No ref filter applied to remove"}
          /\ IF Children(renderedRefs) >= 1
             THEN /\ Children(renderedRefs') = Children(renderedRefs) - 1
                  /\ renderedRefs' = SubSeq(renderedRefs, 1, Len(renderedRefs) - 1)
             ELSE renderedRefs' = renderedRefs]_vars

\* A remove-filter command has taken the second filter off and left the
\* first, which keeps rows of the head link out.
C8_Witness ==
    /\ At("ui", "return")
    /\ result.op = "ActionRemoveFilter"
    /\ result.status = "Removed ref filter"
    /\ Children(renderedRefs) = 1
    /\ VisibleRefs # renderedRefs[1].renderedRefs
    /\ VisibleRefs # <<>>

\* A select command runs in this step with the cursor on a branch or a tag.
EntrySelected ==
    /\ Handled("ActionSelect")
    /\ InRange(VisibleRefs, viewPos.activeRowIndex)
    /\ IsRefType(Ref(VisibleRefs, viewPos.activeRowIndex).renderedRefType)

\* The text of a row from its first token that is not a space.
NameOf(value) ==
    LET first == CHOOSE i \in 1..Len(value) :
                     value[i] # " " /\ \A j \in 1..(i - 1) : value[j] = " "
    IN  SubSeq(value, first, Len(value))

\* The number of listeners called: up to the first that fails, or all.
ListenersCalled(failing) ==
    LET n == Len(refListeners)
        fails == {i \in 1..n : refListeners[i] \in failing}
    IN  IF fails = {} THEN n ELSE CHOOSE i \in fails : \A j \in fails : i <= j

\* C9: a select command on a branch or tag row notifies the registered
\* listeners in registration order, up to and including the first that
\* fails, each with the name and the object id of the row; it returns an
\* error exactly when a listener failed and requests a redraw exactly when
\* none did.
C9_SelectNotifiesListenersInOrder ==
    [][EntrySelected =>
          LET renderedRef == Ref(VisibleRefs, viewPos.activeRowIndex)
              failing == result'.value[1]
              called == ListenersCalled(failing)
          IN  /\ ~panicked'
              /\ result'.notified =
                    [i \in 1..called |-> [listener |-> refListeners[i],
                                          refName |-> NameOf(renderedRef.value),
                                          oid |-> renderedRef.oid]]
              /\ (result'.err # Nil) = (failing \cap Range(refListeners) # {})
              /\ result'.redraw = (result'.err = Nil)]_vars

\* A select command on a branch or tag row has returned an error: the first
\* of the listeners failed and no other was notified.
C9_Witness ==
    /\ At("ui", "return")
    /\ result.op = "ActionSelect"
    /\ InRange(VisibleRefs, viewPos.activeRowIndex)
    /\ IsRefType(Ref(VisibleRefs, viewPos.activeRowIndex).renderedRefType)
    /\ Len(refListeners) >= 2
    /\ result.value = <<Range(refListeners)>>
    /\ Len(result.notified) = 1
    /\ result.notified[1].listener = refListeners[1]
    /\ result.err # Nil
    /\ ~result.redraw

\* A select command runs in this step with the cursor on a group header.
HeaderSelected ==
    /\ Handled("ActionSelect")
    /\ ~panicked'
    /\ InRange(VisibleRefs, viewPos.activeRowIndex)
    /\ IsGroupType(Ref(VisibleRefs, viewPos.activeRowIndex).renderedRefType)

EntryTypeOf(refList) ==
    IF RefLists[refList].renderedRefType = RvLocalBranchGroup THEN RvLocalBranch
    ELSE IF RefLists[refList].renderedRefType = RvRemoteBranchGroup THEN RvRemoteBranch
    ELSE RvTag

\* C10: a select command on a group header flips the expanded flag of the
\* group of that row and of no other, regenerates all the rows (the head
\* link holds the rows generated under the new flags, the filter links are
\* kept), notifies no listener and requests a redraw; if the group was
\* expanded, none of its entry rows is visible afterwards and its header
\* row, in the head link and where visible, carries the marker "+".
C10_SelectHeaderTogglesGroup ==
    [][HeaderSelected =>
          LET refList == Ref(VisibleRefs, viewPos.activeRowIndex).refList
              headerType == RefLists[refList].renderedRefType
              collapsedHeader == <<" ", " ", "[", "+", "]", " ", RefLists[refList].name>>
          IN  /\ expanded' = [expanded EXCEPT ![refList] = ~expanded[refList]]
              /\ renderedRefs'[1].renderedRefs = GeneratedRows(expanded')
              /\ LinkFilters(renderedRefs') = LinkFilters(renderedRefs)
              /\ result'.notified = <<>>
              /\ result'.err = Nil
              /\ result'.redraw
              /\ expanded[refList] =>
                    /\ \A i \in 1..Len(VisibleRefs') :
                          /\ VisibleRefs'[i].renderedRefType # EntryTypeOf(refList)
                          /\ VisibleRefs'[i].renderedRefType = headerType
                                => VisibleRefs'[i].value = collapsedHeader
                    /\ \E i \in 1..Len(renderedRefs'[1].renderedRefs) :
                          /\ renderedRefs'[1].renderedRefs[i].renderedRefType = headerType
                          /\ renderedRefs'[1].renderedRefs[i].value = collapsedHeader]_vars

\* A select command on the header of the Branches group, whose branches
\* were loaded and shown, has returned: the group is collapsed, the cursor
\* is on its header, which reads "[+] Branches", and no branch is visible.
C10_Witness ==
    /\ ~panicked
    /\ At("ui", "return")
    /\ result.op = "ActionSelect"
    /\ result.redraw
    /\ ~branchesLoading
    /\ ~expanded[1]
    /\ InRange(VisibleRefs, viewPos.activeRowIndex)
    /\ Ref(VisibleRefs, viewPos.activeRowIndex).value =
          <<" ", " ", "[", "+", "]", " ", "Branches">>
    /\ \A i \in 1..Len(VisibleRefs) : VisibleRefs[i].renderedRefType # RvLocalBranch

\* The ways an add-filter command fails, by its arguments.
ArgumentMissing(args) == Len(args) = 0
ArgumentNotString(args) == Len(args) > 0 /\ args[1].type # "string"
QueryInvalid(args) == Len(args) > 0 /\ args[1].type = "string" /\ ~args[1].value.valid

\* C11: an add-filter command without an argument, or with an argument that
\* is not a string, returns an error, and one whose query does not compile
\* reports the errors of the compilation; in the three cases every link of
\* the chain, with its filter and its rows, and the cursor are as before.
C11_FailedAddFilterInstallsNothing ==
    [][Handled("ActionAddFilter") =>
          LET args == result'.value[1] IN
          /\ ArgumentMissing(args) => result'.err = "Expected filter query argument"
          /\ ArgumentNotString(args) =>
                result'.err = "Expected filter query argument to have type string"
          /\ QueryInvalid(args) => result'.err = Nil /\ result'.status = "ReportErrors"
          /\ (ArgumentMissing(args) \/ ArgumentNotString(args) \/ QueryInvalid(args)) =>
                /\ ~panicked'
                /\ renderedRefs' = renderedRefs
                /\ viewPos' = viewPos
                /\ expanded' = expanded]_vars

\* An add-filter command whose query does not compile has returned, the
\* filter installed before it still the only one, rows still kept out.
C11_Witness ==
    /\ At("ui", "return")
    /\ result.op = "ActionAddFilter"
    /\ result.status = "ReportErrors"
    /\ QueryInvalid(result.value[1])
    /\ Children(renderedRefs) = 1
    /\ VisibleRefs # renderedRefs[1].renderedRefs

\* Every group is expanded, both loads are complete and their callbacks
\* have run, and no filter is installed.
AllExpandedAndLoaded ==
    /\ \A refList \in RefListIndexes : expanded[refList]
    /\ \A t \in Loaders : At(t, "done")
    /\ Children(renderedRefs) = 0

MatchingRows(chain, k, refs) ==
    SelectSeq(refs, LAMBDA renderedRef : MatchesFilter(chain[k].refFilter, renderedRef))

HeadRows == renderedRefs[1].renderedRefs

\* C13: in every state of the chain, whatever rows were added, filters
\* added and removed and however often it was cleared, the rows of each
\* link after the head are the rows of the link before it that the filter
\* of the link matches, in the same order, and the head link has no filter;
\* the head link holds the rows added since the last Clear: an Add appends
\* one row to it, a Clear empties it, no other step changes it.
C13_LinkHoldsMatchingRowsOfPredecessor ==
    /\ [](/\ renderedRefs[1].refFilter = NilRefFilter
          /\ \A k \in 2..Len(renderedRefs) :
                /\ renderedRefs[k].refFilter # NilRefFilter
                /\ renderedRefs[k].renderedRefs =
                      MatchingRows(renderedRefs, k, renderedRefs[k - 1].renderedRefs))
    /\ [][/\ ChainAdd => \E renderedRef \in ChainRows : HeadRows' = Append(HeadRows, renderedRef)
          /\ ChainClear => HeadRows' = <<>>
          /\ ~(ChainAdd \/ ChainClear) => HeadRows' = HeadRows]_vars

\* Two filters are installed, rows were added, and each filter keeps out
\* some rows of the link before it and lets others through.
C13_Witness ==
    /\ At("ui", "idle")
    /\ Len(renderedRefs) = 3
    /\ Len(renderedRefs[3].renderedRefs) > 0
    /\ Len(renderedRefs[3].renderedRefs) < Len(renderedRefs[2].renderedRefs)
    /\ Len(renderedRefs[2].renderedRefs) < Len(HeadRows)

\* A regeneration completes in this step: that of Initialise, of the tags
\* callback, of a group toggle.
RegenerationCompletes ==
    \/ TagsCallbackReturn
    \/ (Handled("ActionSelect") /\ expanded' # expanded)
    \/ (GenerateStep /\ At("init", "generate") /\ pc'["init"].at = "generated")

SelectableAt(refs) == {i \in 0..(Len(refs) - 1) : Selectable(refs, i)}

\* The index the cursor has after a re-clamp of the index previous on the
\* rows refs: previous when a selectable row is there, else the nearest
\* selectable row after it, else the nearest before it.
Reclamped(refs, previous, activeRowIndex) ==
    LET forward == {i \in SelectableAt(refs) : i > previous}
        backward == {i \in SelectableAt(refs) : i < previous}
    IN  IF previous \in SelectableAt(refs) THEN activeRowIndex = previous
        ELSE IF forward # {}
        THEN activeRowIndex = CHOOSE i \in forward : \A j \in forward : i <= j
        ELSE IF backward # {}
        THEN activeRowIndex = CHOOSE i \in backward : \A j \in backward : j <= i
        ELSE TRUE

\* C14: when a regeneration completes, the selected index is the one a
\* re-clamp yields on the regenerated rows: the previous index if a
\* selectable row is there, else the nearest selectable row after it, else
\* the nearest before it.  For the branches callback, which moves the cursor
\* to the row of HEAD, the index re-clamped is the one the callback chose.
C14_CursorReclampedAfterRegeneration ==
    [][/\ (RegenerationCompletes /\ ~panicked') =>
             Reclamped(VisibleRefs', viewPos.activeRowIndex, viewPos'.activeRowIndex)
       /\ BranchesCallbackReturn =>
             Reclamped(VisibleRefs', BranchesCallbackRowIndex(repo.localBranches),
                       viewPos'.activeRowIndex)]_vars

\* The single steps of a page move that moved the cursor: each lands on the
\* next selectable row in its direction.
StepsThatMoved ==
    LET from == viewPos.activeRowIndex
        to == viewPos'.activeRowIndex
    IN  Cardinality({i \in SelectableAt(VisibleRefs) :
                        (from < i /\ i <= to) \/ (to <= i /\ i < from)})

\* C15: on a viewport of at least 2 rows, a page move makes at most
\* (rows - 2) single steps, and at most one single step that does not move
\* the cursor: once a single step has found no selectable row in its
\* direction no further single step is made.
C15_PageMoveStopsEarly ==
    [][((Handled("ActionNextPage") \/ Handled("ActionPrevPage"))
            /\ viewDimension.rows >= 2 /\ ~panicked') =>
          /\ result'.steps <= viewDimension.rows - 2
          /\ result'.steps <= StepsThatMoved + 1]_vars

\* The entry rows of the group refList once its collection is loaded, from
\* the repository: value, object id, type and number within the group.
LoadedEntries(refList) ==
    IF RefLists[refList].renderedRefType = RvLocalBranchGroup
    THEN IF repo.headBranch = NilBranch
         THEN <<RenderedRef(<<" ", " ", " ", "HEAD detached at ", repo.head[1]>>,
                            repo.head, RvLocalBranch, 0, 1)>>
              \o [i \in 1..Len(repo.localBranches) |->
                    RenderedRef(<<" ", " ", " ", repo.localBranches[i].name>>,
                                repo.localBranches[i].oid, RvLocalBranch, 0, i + 1)]
         ELSE [i \in 1..Len(repo.localBranches) |->
                  RenderedRef(<<" ", " ", " ", repo.localBranches[i].name>>,
                              repo.localBranches[i].oid, RvLocalBranch, 0, i)]
    ELSE IF RefLists[refList].renderedRefType = RvRemoteBranchGroup
    THEN [i \in 1..Len(repo.remoteBranches) |->
             RenderedRef(<<" ", " ", " ", repo.remoteBranches[i].name>>,
                         repo.remoteBranches[i].oid, RvRemoteBranch, 0, i)]
    ELSE [i \in 1..Len(repo.tags) |->
             RenderedRef(<<" ", " ", " ", repo.tags[i].name>>,
                         repo.tags[i].oid, RvTag, 0, i)]

\* The rows a group may contribute: its header with the marker of its
\* flag, then, if it is expanded, what its generator yields (the Loading
\* row, or its entries), then a Spacer unless it is the last group.
GroupLayouts(refList, exp) ==
    LET header == RenderedRef(<<" ", " ", "[", IF exp[refList] THEN "-" ELSE "+", "]",
                                " ", RefLists[refList].name>>,
                              NoOid, RefLists[refList].renderedRefType, refList, 0)
        spacer == IF refList = 3 THEN <<>> ELSE <<RenderedRef(<<>>, NoOid, RvSpace, 0, 0)>>
        generated == IF exp[refList]
                     THEN {<<LoadingRef>>, LoadedEntries(refList)}
                     ELSE {<<>>}
    IN  {<<header>> \o rows \o spacer : rows \in generated}

Layouts(exp) ==
    {branches \o remoteBranches \o tags :
        branches \in GroupLayouts(1, exp),
        remoteBranches \in GroupLayouts(2, exp),
        tags \in GroupLayouts(3, exp)}

\* A regeneration is complete in this step: that of Initialise or of a load
\* callback has run its last iteration, or a group was toggled.
RegenerationDone ==
    \/ \E t \in Generators : GenerateLoop(t) /\ pc'[t].at = "generated"
    \/ (Handled("ActionSelect") /\ expanded' # expanded)

\* C16: with no filter installed, the rows a regeneration leaves are, for
\* Branches, Remote Branches and Tags in this order, the header of the
\* group with the marker "-" if it is expanded and "+" if not, the rows its
\* generator yields if and only if it is expanded, and one Spacer row after
\* every group but the last; nothing else, so no row from before remains.
C16_RegenerationLayout ==
    [][(RegenerationDone /\ Children(renderedRefs') = 0)
          => VisibleRefs' \in Layouts(expanded')]_vars

\* The collection behind the group refList is still loading.
StillLoading(refList) ==
    IF RefLists[refList].renderedRefType = RvTagGroup THEN tagsLoading ELSE branchesLoading

\* What the group refList contributes to a regeneration under the flags
\* exp: its header, one Loading row while its collection loads and one row
\* for each loaded item after that if it is expanded, its Spacer.
Contribution(refList, exp) ==
    LET header == RenderedRef(<<" ", " ", "[", IF exp[refList] THEN "-" ELSE "+", "]",
                                " ", RefLists[refList].name>>,
                              NoOid, RefLists[refList].renderedRefType, refList, 0)
        spacer == IF refList = 3 THEN <<>> ELSE <<RenderedRef(<<>>, NoOid, RvSpace, 0, 0)>>
        rows == IF ~exp[refList] THEN <<>>
                ELSE IF StillLoading(refList) THEN <<LoadingRef>>
                ELSE LoadedEntries(refList)
    IN  <<header>> \o rows \o spacer

CallbackHasRun(t) == pc[t].at \in {"generate", "generated", "done"}

\* C17: the rows a regeneration adds for a group that is expanded are one
\* Loading row and no entry while the collection of the group loads, and
\* one entry for each loaded item, in the order of the collection, and no
\* Loading row otherwise; once the callback of a load has run the
\* collection is not loading any more.  This holds for each iteration of
\* the loop of a regeneration and for the regeneration of a group toggle.
C17_LoadingRowWhileLoading ==
    /\ [](/\ CallbackHasRun("branchLoader") => ~StillLoading(1) /\ ~StillLoading(2)
          /\ CallbackHasRun("tagLoader") => ~StillLoading(3))
    /\ [][/\ \A t \in Generators :
                GenerateLoop(t) =>
                    HeadRows' = HeadRows \o Contribution(pc[t].refIndex, expanded)
          /\ (Handled("ActionSelect") /\ expanded' # expanded) =>
                HeadRows' = Contribution(1, expanded') \o Contribution(2, expanded')
                                \o Contribution(3, expanded')]_vars

\* The branches callback has run and the tags still load, both groups
\* expanded: the rows hold an entry for each local branch and, after the
\* Tags header, the Loading row.
C17_Witness ==
    /\ At("branchLoader", "done")
    /\ tagsLoading
    /\ expanded[1] /\ expanded[3]
    /\ At("ui", "return")
    /\ result.op = "ActionSelect"
    /\ HeadRows = Contribution(1, expanded) \o Contribution(2, expanded)
                      \o Contribution(3, expanded)
    /\ HeadRows[Len(HeadRows)] = LoadingRef
    /\ \E i \in 1..Len(HeadRows) : HeadRows[i].renderedRefType = RvLocalBranch

\* C18: no Render, select or line move ends in the run-time panic of an
\* index out of range: whenever one of them indexes the visible rows by the
\* selected index, the index is below the number of visible rows.
C18_SelectedIndexInRange ==
    ~(/\ panicked
      /\ result.op \in {"Render", "ActionSelect", "ActionPrevLine", "ActionNextLine"})

IsHeadRow(renderedRef) ==
    /\ renderedRef.renderedRefType = RvLocalBranch
    /\ renderedRef.oid = repo.head
    /\ NameOf(renderedRef.value) =
          IF repo.headBranch = NilBranch
          THEN <<"HEAD detached at ", repo.head[1]>>
          ELSE <<repo.headBranch.name>>

\* C20: when the branches callback finishes, the selected index is in the
\* visible rows and the row there is the row of HEAD.
C20_BranchesCallbackSelectsHead ==
    [][BranchesCallbackReturn =>
          /\ InRange(VisibleRefs', viewPos'.activeRowIndex)
          /\ IsHeadRow(Ref(VisibleRefs', viewPos'.activeRowIndex))]_vars

\* C21: when the recorded viewport has fewer than 2 rows, a page move makes
\* no single step and Render draws no row.
C21_RowsMinusTwoDoesNotWrap ==
    [][/\ ((Handled("ActionNextPage") \/ Handled("ActionPrevPage"))
              /\ viewDimension.rows < 2 /\ ~panicked') =>
             result'.steps = 0
       /\ (RenderRows /\ viewDimension.rows < 2 /\ ~panicked'
              /\ result'.err = "nil") =>
             result'.steps = 0]_vars

\* The footer of the row renderedRef when no filter is installed: for an
\* entry row, its number within its group and the total of its group.
GroupFooter(renderedRef) == renderFooter(<<renderedRefs[1]>>, renderedRef)

\* C22: every entry row of the regenerated rows has a number within its
\* group that is at least 1 and at most the total of the group that the
\* footer reports for the row.
C22_IndexInGroupWithinTotal ==
    \A i \in 1..Len(HeadRows) :
        HeadRows[i].renderedRefType \in {RvLocalBranch, RvRemoteBranch, RvTag} =>
            /\ 1 <= HeadRows[i].refNum
            /\ HeadRows[i].refNum <= GroupFooter(HeadRows[i]).total

====
